---- MODULE Spec2Model ----
(***************************************************************************)
(* Checkpoint variable reconciliation of                                   *)
(* monolith/native_training/dense_reload_utils.py.                         *)
(*                                                                         *)
(* A variable name is a finite sequence of lexemes.  A lexeme is one       *)
(* character that the code inspects on its own ("/", ":", "^", " ", "_",   *)
(* a decimal digit) or a maximal run of letters ("dense", "bias", "part",  *)
(* "w", ...).  Every regular expression and string method of the source   *)
(* is modelled by what it does to such a sequence.                         *)
(***************************************************************************)
EXTENDS Integers, Sequences, FiniteSets, TLC

VARIABLES
  pc,                  \* position of the modelled caller
  \* get_new_name
  raw_name,            \* the argument
  canonical,           \* get_new_name(raw_name)
  canonical2,          \* get_new_name(canonical)
  \* update_var_name_mapping_for_dense
  mapping_items,       \* the items of var_name_mapping before the call, in order
  mapping_after,       \* var_name_mapping after the call
  \* CustomRestoreListener.begin
  env,                 \* is_exporting(), tf.train.get_checkpoint_state, the flag file
  listener,            \* the fields of the CustomRestoreListener
  all_old_var_names,   \* the names the checkpoint holds
  variables,           \* graph.get_collection('variables'): the raw names
  custom_restore_op,   \* graph.get_collection(CUSTOM_RESTORE_OP)
  call,                \* the last call of _need_build_custom_init_graph
  \* calc_feed_dict
  ckpt,                \* the checkpoint reader: old name -> leading extent
  alias_map,           \* the items of the argument alias_map, in order
  placeholders,        \* origin_name -> shape[0] of the placeholder
  feed                 \* how calc_feed_dict ended and what it returned

normVars == <<raw_name, canonical, canonical2>>
denseVars == <<mapping_items, mapping_after>>
listenerVars == <<env, listener, all_old_var_names, variables, custom_restore_op, call>>
feedVars == <<ckpt, alias_map, placeholders, feed>>
vars == <<pc, normVars, denseVars, listenerVars, feedVars>>

\* Python's None where a name is expected: a name no pool of names holds.
NoneName == <<"<None>">>

\* Python's None where a dictionary is expected, and a dictionary d there.
NoneDict == [none |-> TRUE]

Dict(d) == [none |-> FALSE, d |-> d]

\* bool(x) of an optional dictionary: None and {} are false.
Truthy(x) == ~x.none /\ DOMAIN x.d # {}

---------------------------------------------------------------------------
(* Lexemes and Python string methods                                       *)

Digits == {"0", "1", "2", "3", "4", "5", "6", "7", "8", "9"}

DigitValue(c) ==
  CASE c = "0" -> 0 [] c = "1" -> 1 [] c = "2" -> 2 [] c = "3" -> 3
    [] c = "4" -> 4 [] c = "5" -> 5 [] c = "6" -> 6 [] c = "7" -> 7
    [] c = "8" -> 8 [] c = "9" -> 9

DigitOf(n) ==
  CASE n = 0 -> "0" [] n = 1 -> "1" [] n = 2 -> "2" [] n = 3 -> "3"
    [] n = 4 -> "4" [] n = 5 -> "5" [] n = 6 -> "6" [] n = 7 -> "7"
    [] n = 8 -> "8" [] n = 9 -> "9"

\* s[i:j] of Python with 0 <= i, j <= len(s): the lexemes i+1 .. j.
Slice(s, i, j) == IF j <= i THEN <<>> ELSE SubSeq(s, i + 1, j)

\* str.isdigit(): non-empty and made of digits only.
isdigit(s) == Len(s) > 0 /\ \A i \in 1..Len(s) : s[i] \in Digits

\* int(s) for a string of digits.
RECURSIVE int(_)
int(s) ==
  IF Len(s) = 0 THEN 0
  ELSE 10 * int(SubSeq(s, 1, Len(s) - 1)) + DigitValue(s[Len(s)])

\* str(n) for n >= 0.
RECURSIVE str(_)
str(n) == IF n < 10 THEN <<DigitOf(n)>> ELSE str(n \div 10) \o <<DigitOf(n % 10)>>

\* s.rstrip(c) and s.lstrip(c) for a one-character c.
RECURSIVE rstrip(_, _)
rstrip(s, c) ==
  IF Len(s) > 0 /\ s[Len(s)] = c THEN rstrip(SubSeq(s, 1, Len(s) - 1), c) ELSE s

RECURSIVE lstrip(_, _)
lstrip(s, c) ==
  IF Len(s) > 0 /\ s[1] = c THEN lstrip(Tail(s), c) ELSE s

\* s.strip(): whitespace off both ends.
strip(s) == rstrip(lstrip(s, " "), " ")

\* s.endswith(t)
endswith(s, t) ==
  Len(t) <= Len(s) /\ SubSeq(s, Len(s) - Len(t) + 1, Len(s)) = t

\* s.startswith(t)
startswith(s, t) == Len(t) <= Len(s) /\ SubSeq(s, 1, Len(t)) = t

\* s.split(c): the pieces between the occurrences of c (one piece more than
\* there are occurrences; pieces may be empty).
RECURSIVE split(_, _)
split(s, c) ==
  IF \E i \in 1..Len(s) : s[i] = c
  THEN LET i == CHOOSE k \in 1..Len(s) : s[k] = c /\ \A j \in 1..(k - 1) : s[j] # c
       IN  <<Slice(s, 0, i - 1)>> \o split(Slice(s, i, Len(s)), c)
  ELSE <<s>>

\* c.join(parts)
RECURSIVE join(_, _)
join(parts, c) ==
  IF Len(parts) = 0 THEN <<>>
  ELSE IF Len(parts) = 1 THEN parts[1]
  ELSE parts[1] \o <<c>> \o join(Tail(parts), c)

\* The length of the run of digits that starts at position i of s.
RECURSIVE DigitRun(_, _)
DigitRun(s, i) ==
  IF i <= Len(s) /\ s[i] \in Digits THEN 1 + DigitRun(s, i + 1) ELSE 0

---------------------------------------------------------------------------
(* node_name and get_new_name                                              *)

\* name.rsplit(':', 1) when ':' is in name: <<before the last ':', after it>>.
rsplit_colon(s) ==
  LET i == CHOOSE k \in 1..Len(s) : s[k] = ":" /\ \A j \in (k + 1)..Len(s) : s[j] # ":"
  IN  <<Slice(s, 0, i - 1), Slice(s, i, Len(s))>>

\* Lines 60-63: name without its last ':<digits>', parts being the two parts
\* of name around its last ':'.
node_name_rsplit(name, parts) == IF isdigit(parts[2]) THEN parts[1] ELSE name

\* Lines 58-63 on the name that line 57 leaves.
node_name_stripped(name) ==
  IF \E i \in 1..Len(name) : name[i] = ":"
  THEN node_name_rsplit(name, rsplit_colon(name))
  ELSE name

node_name_unmarked(name) ==
  node_name_stripped(IF startswith(name, <<"^">>) THEN Tail(name) ELSE name)

node_name(raw) == node_name_unmarked(rstrip(strip(raw), "/"))

\* The loop of get_new_name: keep a term only if it is not selected yet.
RECURSIVE select_terms(_, _)
select_terms(terms, selected) ==
  IF Len(terms) = 0 THEN selected
  ELSE select_terms(Tail(terms),
                    IF \E i \in 1..Len(selected) : selected[i] = terms[1]
                    THEN selected
                    ELSE Append(selected, terms[1]))

get_new_name(raw) == join(select_terms(split(node_name(raw), "/"), <<>>), "/")

---------------------------------------------------------------------------
(* The regular expressions of the module                                   *)

\* The greatest element of a non-empty set of positions.
Last(S) == CHOOSE k \in S : \A j \in S : j <= k

\* Where the token 'dense_\d+' that starts at position i of s ends when its
\* run of digits has the length run and a "/" must follow; 0 when it does not.
NumberedTokenEnd(s, i, run) ==
  IF run > 0 /\ i + 2 + run <= Len(s) /\ s[i + 2 + run] = "/"
  THEN i + 1 + run
  ELSE 0

\* Where the dense token 'dense(?:_\d+)?' that starts at position i of s ends,
\* given that a "/" must follow it; 0 when no such token starts at i.
DenseTokenEnd(s, i) ==
  IF i > Len(s) \/ s[i] # "dense" THEN 0
  ELSE IF i + 1 <= Len(s) /\ s[i + 1] = "/" THEN i
  ELSE IF i + 1 <= Len(s) /\ s[i + 1] = "_"
       THEN NumberedTokenEnd(s, i, DigitRun(s, i + 2))
  ELSE 0

DenseLocalVars == {"bias", "kernel", "trainable_kernel_norm"}

\* Whether a dense token that ends at e (0: none) is followed by '/' and one
\* of the local variables.
DenseLocalVarAfter(s, e) ==
  e > 0 /\ e + 2 <= Len(s) /\ s[e + 2] \in DenseLocalVars

\* The positions where '(dense(?:_\d+)?)/(bias|kernel|trainable_kernel_norm)'
\* matches in s.
DensePatStarts(s) ==
  {i \in 1..Len(s) : DenseLocalVarAfter(s, DenseTokenEnd(s, i))}

\* The groups of DensePat when the dense token is at the positions i..e of s.
DensePatGroups(s, i, e) ==
  [matched |-> TRUE,
   g1 |-> Slice(s, 0, i - 1),
   g2 |-> Slice(s, i - 1, e),
   g3 |-> <<s[e + 2]>>,
   g4 |-> Slice(s, e + 2, Len(s))]

DensePatFrom(s, i) == DensePatGroups(s, i, DenseTokenEnd(s, i))

\* The first group is greedy, so the last start wins.
DensePatMatch(s, starts) ==
  IF starts = {} THEN [matched |-> FALSE] ELSE DensePatFrom(s, Last(starts))

\* DensePat.match(s)
DensePat(s) == DensePatMatch(s, DensePatStarts(s))

\* Whether a dense token that ends at e (0: none) is followed by '/.+'.
DenseRestAfter(s, e) == e > 0 /\ e + 2 <= Len(s)

\* The positions where '/(dense(?:_\d+)?)/.+' matches in s.
DedupPatStarts(s) ==
  {i \in 2..Len(s) : s[i - 1] = "/" /\ DenseRestAfter(s, DenseTokenEnd(s, i))}

DedupPatFrom(s, i) == [matched |-> TRUE, g1 |-> Slice(s, i - 1, DenseTokenEnd(s, i))]

\* '.*' is greedy, so the last start wins.
DedupPatMatch(s, starts) ==
  IF starts = {} THEN [matched |-> FALSE] ELSE DedupPatFrom(s, Last(starts))

\* DedupPat.match(s)
DedupPat(s) == DedupPatMatch(s, DedupPatStarts(s))

\* Whether '/part_\d+' matches at position i of s.
PartAt(s, i) ==
  /\ i + 3 <= Len(s)
  /\ s[i] = "/" /\ s[i + 1] = "part" /\ s[i + 2] = "_"
  /\ DigitRun(s, i + 3) > 0

\* Whether s ends at e or goes on with "/".
EndOrSlash(s, e) == e = Len(s) \/ s[e + 1] = "/"

\* The positions where '/part_(\d+)(/.*)?$' matches in s after a non-empty
\* prefix.
PATStarts(s) ==
  {i \in 2..Len(s) : PartAt(s, i) /\ EndOrSlash(s, i + 2 + DigitRun(s, i + 3))}

PATFrom(s, i) == [matched |-> TRUE, g1 |-> Slice(s, i + 2, i + 2 + DigitRun(s, i + 3))]

\* '.+' is greedy, so the last start wins.
PATMatch(s, starts) ==
  IF starts = {} THEN [matched |-> FALSE] ELSE PATFrom(s, Last(starts))

\* PAT.match(s)
PAT(s) == PATMatch(s, PATStarts(s))

\* ''.join(re.compile(r"/part_\d+").split(s)): s without the matches of
\* '/part_\d+', found from left to right.
RECURSIVE strip_parts_from(_, _)
strip_parts_from(s, i) ==
  IF i > Len(s) THEN <<>>
  ELSE IF PartAt(s, i) THEN strip_parts_from(s, i + 3 + DigitRun(s, i + 3))
  ELSE <<s[i]>> \o strip_parts_from(s, i + 1)

strip_parts(s) == strip_parts_from(s, 1)

\* terms[-1]
LastOf(terms) == terms[Len(terms)]

\* The key of both sorts of dense tokens:
\* lambda x: 0 if x == 'dense' else int(x.split('_')[-1]).
dense_sort_key(x) ==
  IF x = <<"dense">> THEN 0 ELSE int(LastOf(split(x, "_")))

\* sorted(xs, key=...) where keys[i] is the key of xs[i]: Python's sort is
\* stable, so of two elements with the same key the one that comes first in
\* xs stays first. The keys and the ranks are sequences, so that each is
\* computed once.
StableSort(xs, keys) ==
  LET n == Len(xs)
      key == keys \o <<>>
      before(i, j) == key[i] < key[j] \/ (key[i] = key[j] /\ i < j)
      rank == [i \in 1..n |-> 1 + Cardinality({j \in 1..n : before(j, i)})] \o <<>>
  IN  [k \in 1..n |-> xs[CHOOSE i \in 1..n : rank[i] = k]]

---------------------------------------------------------------------------
(* _NameMapping and get_guess_name                                         *)

\* 'c_dot/mlp(.*)?$' -> 'c_dot/compress_tower{}'
rule_c_dot(s) ==
  IF startswith(s, <<"c_dot", "/", "mlp">>)
  THEN [matched |-> TRUE,
        guess |-> <<"c_dot", "/", "compress_tower">> \o Slice(s, 3, Len(s))]
  ELSE [matched |-> FALSE]

\* '^dcn/<word>_(\d+)/trainable_norm(.*)?$' -> '<word>_{}_trainable_norm{}'
rule_dcn_norm(s, word) ==
  LET run == DigitRun(s, 5) IN
  IF /\ startswith(s, <<"dcn", "/", word, "_">>)
     /\ run > 0
     /\ startswith(Slice(s, 4 + run, Len(s)), <<"/", "trainable_norm">>)
  THEN [matched |-> TRUE,
        guess |-> <<word, "_">> \o Slice(s, 4, 4 + run) \o <<"_", "trainable_norm">>
                    \o Slice(s, 6 + run, Len(s))]
  ELSE [matched |-> FALSE]

\* '^dcn/<word>_(\d+)(.*)?$' -> '<word>_{}{}'
rule_dcn(s, word) ==
  LET run == DigitRun(s, 5) IN
  IF startswith(s, <<"dcn", "/", word, "_">>) /\ run > 0
  THEN [matched |-> TRUE, guess |-> Slice(s, 2, Len(s))]
  ELSE [matched |-> FALSE]

\* The rules in the order of the dictionary.
_NameMapping(s) ==
  <<rule_c_dot(s),
    rule_dcn_norm(s, "kernel"),
    rule_dcn(s, "kernel"),
    rule_dcn_norm(s, "bias"),
    rule_dcn(s, "bias")>>

\* The loop of get_guess_name over the rules: the guess of the first rule
\* that matches, name itself when none does.
first_guess(name, rules) ==
  IF \A k \in 1..Len(rules) : ~rules[k].matched THEN name
  ELSE rules[CHOOSE k \in 1..Len(rules) :
               rules[k].matched /\ \A j \in 1..(k - 1) : ~rules[j].matched].guess

get_guess_name(s) == first_guess(s, _NameMapping(s))

---------------------------------------------------------------------------
(* update_var_name_mapping_for_dense                                       *)
(*                                                                         *)
(* A dictionary that the code iterates is a sequence of its items in       *)
(* insertion order; var_name_mapping, which the code only looks up and     *)
(* assigns, is a function from names to names.                             *)

\* d[key] = value on a function.
SetItem(d, key, value) ==
  [k \in DOMAIN d \cup {key} |-> IF k = key THEN value ELSE d[k]]

\* A var_terms tuple (prefix, dense_name, dense_local_var, surfix, origin).
VarTerms(prefix, dense_name, dense_local_var, surfix, origin) ==
  <<prefix, dense_name, dense_local_var, surfix, origin>>

\* The index of dense_name in dense_layers, 0 when it is no key.
LayerIndex(dense_layers, dense_name) ==
  IF \E i \in 1..Len(dense_layers) : dense_layers[i].dense_name = dense_name
  THEN CHOOSE i \in 1..Len(dense_layers) : dense_layers[i].dense_name = dense_name
  ELSE 0

\* Lines 95-109: the var_terms tuple terms of a variable, of a bias or not,
\* is added to dense_layers, where at is the index of its dense name.
collect_var(dense_layers, at, is_bias, terms) ==
  IF at > 0
  THEN [dense_layers EXCEPT
          ![at] = [dense_name |-> terms[2],
                   bias_prefix |-> IF is_bias THEN terms[1] ELSE @.bias_prefix,
                   dense_local_var |-> Append(@.dense_local_var, terms)]]
  ELSE Append(dense_layers,
              [dense_name |-> terms[2],
               bias_prefix |-> IF is_bias THEN terms[1] ELSE <<>>,
               dense_local_var |-> <<terms>>])

\* Lines 90-109 for the match matched of the name of an item.
collect_matched(dense_layers, matched, origin) ==
  IF ~matched.matched THEN dense_layers
  ELSE collect_var(
         dense_layers,
         LayerIndex(dense_layers, matched.g2),
         matched.g3 = <<"bias">>,
         VarTerms(IF matched.g3 = <<"bias">>
                  THEN get_guess_name(rstrip(matched.g1, "/"))
                  ELSE rstrip(matched.g1, "/"),
                  matched.g2, matched.g3, lstrip(matched.g4, "/"), origin))

\* One round of the first loop: the item (item_name, origin) is added to
\* dense_layers.
collect_item(dense_layers, item_name, origin) ==
  collect_matched(dense_layers, DensePat(item_name), origin)

\* The first loop over var_name_mapping.items(), given as the sequence items
\* of <<name, origin>> pairs.
RECURSIVE collect_dense_layers(_, _)
collect_dense_layers(items, dense_layers) ==
  IF Len(items) = 0 THEN dense_layers
  ELSE collect_dense_layers(Tail(items),
                            collect_item(dense_layers, items[1][1], items[1][2]))

\* The index of bias_prefix in dense_layers_refactor, 0 when it is no key.
BucketIndex(refactor, bias_prefix) ==
  IF \E i \in 1..Len(refactor) : refactor[i].bias_prefix = bias_prefix
  THEN CHOOSE i \in 1..Len(refactor) : refactor[i].bias_prefix = bias_prefix
  ELSE 0

\* The second loop: dense_layers regrouped by bias_prefix.
RECURSIVE refactor_dense_layers(_, _)
refactor_dense_layers(dense_layers, refactor) ==
  IF Len(dense_layers) = 0 THEN refactor
  ELSE
    LET layer == dense_layers[1]
        at == BucketIndex(refactor, layer.bias_prefix)
        entry == [dense_name |-> layer.dense_name, vars |-> layer.dense_local_var]
    IN  refactor_dense_layers(
          Tail(dense_layers),
          IF at > 0
          THEN [refactor EXCEPT ![at].layers = Append(@, entry)]
          ELSE Append(refactor, [bias_prefix |-> layer.bias_prefix,
                                 layers |-> <<entry>>]))

\* dense_names of a bucket: list(layers_vars), sorted when longer than 1.
bucket_dense_names(bucket) ==
  LET dense_names == [i \in 1..Len(bucket.layers) |-> bucket.layers[i].dense_name]
  IN  IF Len(dense_names) > 1 THEN StableSort(dense_names,
                                             [i \in 1..Len(dense_names) |-> dense_sort_key(dense_names[i])])
      ELSE dense_names

\* The condition of both registration loops.
prefix_fits(prefix, bias_prefix) == prefix = <<>> \/ endswith(bias_prefix, prefix)

\* '/'.join([bias_prefix, new_dense_name, local_var_name, var_terms[3]]).rstrip('/')
renumbered_name(bias_prefix, new_dense_name, var_terms) ==
  rstrip(join(<<bias_prefix, new_dense_name, var_terms[3], var_terms[4]>>, "/"), "/")

\* '/'.join([bias_prefix] + list(var_terms[1:-1])).rstrip('/')
unrenumbered_name(bias_prefix, var_terms) ==
  rstrip(join(<<bias_prefix, var_terms[2], var_terms[3], var_terms[4]>>, "/"), "/")

\* A renumbering loop that assigns whatever the kind of the variable.
RenumberAssigns_Overwrite(m, local_var_name, new_name) == TRUE

\* Whether the renumbering loop assigns new_name for a variable of this kind
\* when the mapping is m: bias always, the others only into a free slot.
RenumberAssigns(m, local_var_name, new_name) ==
  local_var_name = <<"bias">> \/ new_name \notin DOMAIN m

\* The loop over layers_vars[dense_name] of the renumbering loop.
RECURSIVE renumber_vars(_, _, _, _)
renumber_vars(vars_, bias_prefix, new_dense_name, m) ==
  IF Len(vars_) = 0 THEN m
  ELSE
    LET var_terms == vars_[1]
        new == renumbered_name(bias_prefix, new_dense_name, var_terms)
    IN  renumber_vars(
          Tail(vars_), bias_prefix, new_dense_name,
          IF prefix_fits(var_terms[1], bias_prefix)
             /\ RenumberAssigns(m, var_terms[3], new)
          THEN SetItem(m, new, var_terms[5])
          ELSE m)

\* layers_vars[dense_name] of a bucket.
bucket_vars(bucket, dense_name) ==
  bucket.layers[CHOOSE i \in 1..Len(bucket.layers) :
                  bucket.layers[i].dense_name = dense_name].vars

\* for i, dense_name in enumerate(dense_names), from index i on.
RECURSIVE renumber_names(_, _, _, _)
renumber_names(bucket, dense_names, i, m) ==
  IF i >= Len(dense_names) THEN m
  ELSE renumber_names(
         bucket, dense_names, i + 1,
         renumber_vars(bucket_vars(bucket, dense_names[i + 1]), bucket.bias_prefix,
                       <<"dense", "_">> \o str(i), m))

\* The third loop, over dense_layers_refactor.items().
RECURSIVE renumber_buckets(_, _)
renumber_buckets(refactor, m) ==
  IF Len(refactor) = 0 THEN m
  ELSE renumber_buckets(Tail(refactor),
                        renumber_names(refactor[1], bucket_dense_names(refactor[1]), 0, m))

\* The inner loop of the last loop.
RECURSIVE register_vars(_, _, _)
register_vars(vars_, bias_prefix, m) ==
  IF Len(vars_) = 0 THEN m
  ELSE
    LET var_terms == vars_[1]
        new == unrenumbered_name(bias_prefix, var_terms)
    IN  register_vars(
          Tail(vars_), bias_prefix,
          IF prefix_fits(var_terms[1], bias_prefix) /\ new \notin DOMAIN m
          THEN SetItem(m, new, var_terms[5])
          ELSE m)

\* The last loop, over dense_layers.items().
RECURSIVE register_layers(_, _)
register_layers(dense_layers, m) ==
  IF Len(dense_layers) = 0 THEN m
  ELSE register_layers(Tail(dense_layers),
                       register_vars(dense_layers[1].dense_local_var,
                                     dense_layers[1].bias_prefix, m))

\* The dictionary with the given items.
DictOf(items) ==
  [k \in {items[i][1] : i \in 1..Len(items)} |->
     items[CHOOSE i \in 1..Len(items) : items[i][1] = k][2]]

\* The loops after the first one, for the dense_layers the first one leaves.
update_from_layers(items, dense_layers) ==
  register_layers(dense_layers,
                  renumber_buckets(refactor_dense_layers(dense_layers, <<>>),
                                   DictOf(items)))

\* update_var_name_mapping_for_dense on the dictionary whose items are, in
\* order, the <<name, origin>> pairs of items: the dictionary it leaves.
update_var_name_mapping_for_dense(items) ==
  update_from_layers(items, collect_dense_layers(items, <<>>))

---------------------------------------------------------------------------
(* CustomRestoreListener                                                   *)

\* __init__: the fields of a new listener.
CustomRestoreListener(alias_map_, clear_nn, continue_training, model_dir, auto_gen) ==
  [_alias_map |-> alias_map_,
   _clear_nn |-> clear_nn,
   _continue_training |-> continue_training,
   model_dir |-> model_dir,
   ckpt_name |-> "None",
   enable_alias_map_auto_gen |-> auto_gen]

\* node_name(''.join(pat.split(variable.name)))
expected_saved_varibale_name(raw) == node_name(strip_parts(raw))

\* Step 2: the number of variables found in the checkpoint.
RECURSIVE count_found(_, _)
count_found(variables_, old_names) ==
  IF Len(variables_) = 0 THEN 0
  ELSE (IF expected_saved_varibale_name(variables_[1]) \in old_names THEN 1 ELSE 0)
       + count_found(Tail(variables_), old_names)

\* d[key] = value on the items of a dictionary: a key that is present keeps
\* its place.
SetItemOrdered(items, key, value) ==
  IF \E i \in 1..Len(items) : items[i][1] = key
  THEN [i \in 1..Len(items) |-> IF items[i][1] = key THEN <<key, value>> ELSE items[i]]
  ELSE Append(items, <<key, value>>)

\* Step 3: var_name_mapping[get_new_name(name)] = name for the names of the
\* checkpoint in the order old_order in which the set is iterated.
RECURSIVE new_names_of(_, _)
new_names_of(old_order, items) ==
  IF Len(old_order) = 0 THEN items
  ELSE new_names_of(Tail(old_order),
                    SetItemOrdered(items, get_new_name(old_order[1]), old_order[1]))

\* d.get(key)
Get(d, key) == IF key \in DOMAIN d THEN d[key] ELSE NoneName

\* Step 4: alias_map[node_name(variable.name)] = var_name_mapping.get(expected).
RECURSIVE generate_alias_map(_, _, _)
generate_alias_map(variables_, var_name_mapping, alias_map_) ==
  IF Len(variables_) = 0 THEN alias_map_
  ELSE generate_alias_map(
         Tail(variables_), var_name_mapping,
         SetItem(alias_map_, node_name(variables_[1]),
                 Get(var_name_mapping, expected_saved_varibale_name(variables_[1]))))

none_values(alias_map_) == {n \in DOMAIN alias_map_ : alias_map_[n] = NoneName}

\* A step 5 that goes on to the next name after one the guess does not
\* resolve, and ends valid.
RECURSIVE check_alias_map_Continue(_, _, _)
check_alias_map_Continue(alias_map_, none_order, var_name_mapping) ==
  IF Len(none_order) = 0 THEN [valid |-> TRUE, alias_map |-> alias_map_]
  ELSE LET guess_name ==
             get_guess_name(expected_saved_varibale_name(none_order[1]))
       IN  check_alias_map_Continue(
             IF guess_name \in DOMAIN var_name_mapping
             THEN SetItem(alias_map_, none_order[1], var_name_mapping[guess_name])
             ELSE alias_map_,
             Tail(none_order), var_name_mapping)

\* Step 5: the loop over none_values in the order none_order: a name that the
\* guess resolves is filled in, the first one it does not resolve ends the loop
\* (and the call).
RECURSIVE check_alias_map_loop(_, _, _)
RECURSIVE check_guess_name(_, _, _, _)
check_guess_name(alias_map_, none_order, var_name_mapping, guess_name) ==
  IF guess_name \in DOMAIN var_name_mapping
  THEN check_alias_map_loop(
         SetItem(alias_map_, none_order[1], var_name_mapping[guess_name]),
         Tail(none_order), var_name_mapping)
  ELSE [valid |-> FALSE, alias_map |-> alias_map_]

check_alias_map_loop(alias_map_, none_order, var_name_mapping) ==
  IF Len(none_order) = 0 THEN [valid |-> TRUE, alias_map |-> alias_map_]
  ELSE check_guess_name(alias_map_, none_order, var_name_mapping,
                        get_guess_name(expected_saved_varibale_name(none_order[1])))

check_alias_map(alias_map_, none_order, var_name_mapping) ==
  check_alias_map_loop(alias_map_, none_order, var_name_mapping)

\* A step 2 that looks the variables up with their '/part_<N>' segments.
compatible_NoPartStrip(variables_, old_names) ==
  \A i \in 1..Len(variables_) : node_name(variables_[i]) \in old_names

\* Whether step 2 finds every variable in the checkpoint.
compatible(variables_, old_names) ==
  Len(variables_) = count_found(variables_, old_names)

\* The end of _need_build_custom_init_graph: with an alias map, whether some
\* node_name of a variable is not among the values of the map.
final_check(self_alias_map, variables_) ==
  IF Truthy(self_alias_map)
  THEN LET new_names_alias_map ==
             {self_alias_map.d[k] : k \in DOMAIN self_alias_map.d}
           new_names_from_var ==
             {node_name(variables_[i]) : i \in 1..Len(variables_)}
       IN  new_names_from_var \ new_names_alias_map # {}
  ELSE FALSE

\* var_name_mapping after steps 3 and the call of step 4's helper
\* update_var_name_mapping_for_dense.
var_name_mapping_of(old_order) ==
  update_var_name_mapping_for_dense(new_names_of(old_order, <<>>))

\* Whether _need_build_custom_init_graph infers an alias map.
infers(self, variables_, old_names) ==
  /\ ~Truthy(self._alias_map) /\ self.enable_alias_map_auto_gen
  /\ ~compatible(variables_, old_names)

\* none_values of step 5 when the old names are iterated in old_order.
none_values_of(variables_, old_order) ==
  none_values(generate_alias_map(variables_, var_name_mapping_of(old_order), <<>>))

\* The end of the inference, step 6 included, for the outcome checked of
\* step 5.
infer_result(self, variables_, var_name_mapping, checked) ==
  IF ~checked.valid
  THEN [ret |-> FALSE, _alias_map |-> self._alias_map, at |-> "cannot alias",
        var_name_mapping |-> Dict(var_name_mapping),
        alias_map |-> Dict(checked.alias_map)]
  ELSE [ret |-> final_check(Dict(checked.alias_map), variables_),
        _alias_map |-> Dict(checked.alias_map), at |-> "generated",
        var_name_mapping |-> Dict(var_name_mapping),
        alias_map |-> Dict(checked.alias_map)]

\* Steps 4 to 6 for the var_name_mapping of step 3.
infer_alias_map(self, variables_, none_order, var_name_mapping) ==
  infer_result(self, variables_, var_name_mapping,
               check_alias_map(generate_alias_map(variables_, var_name_mapping, <<>>),
                               none_order, var_name_mapping))

\* _need_build_custom_init_graph(variables_) of the listener self, when the
\* set of old names is iterated in the order old_order and none_values in the
\* order none_order: what it returns (ret), the listener's alias map after
\* it, where it returned, and its locals var_name_mapping and alias_map there.
_need_build_custom_init_graph(self, variables_, old_names, old_order, none_order) ==
  IF ~Truthy(self._alias_map) /\ self.enable_alias_map_auto_gen
  THEN
    IF compatible(variables_, old_names)
    THEN [ret |-> FALSE, _alias_map |-> self._alias_map, at |-> "compatible",
          var_name_mapping |-> NoneDict, alias_map |-> NoneDict]
    ELSE infer_alias_map(self, variables_, none_order, var_name_mapping_of(old_order))
  ELSE [ret |-> final_check(self._alias_map, variables_),
        _alias_map |-> self._alias_map, at |-> "given",
        var_name_mapping |-> NoneDict, alias_map |-> NoneDict]

\* The entry begin adds to the collection CUSTOM_RESTORE_OP.
RestoreOp(ops, placeholders_, alias_map_) ==
  [ops |-> ops, placeholders |-> placeholders_, alias_map |-> alias_map_]

NotCalled == [called |-> FALSE]

---------------------------------------------------------------------------
(* calc_feed_dict                                                          *)
(*                                                                         *)
(* A tensor is the sequence of its rows along the leading dimension; the   *)
(* tensor of the checkpoint with leading extent n is <<1, ..., n>>, so a   *)
(* slice shows the rows it was cut from.                                   *)

\* ckpt.get_tensor(old_name) when the leading extent is extent.
get_tensor(extent) == [r \in 1..extent |-> r]

Min(a, b) == IF a <= b THEN a ELSE b

\* ary[st:end] of Python for st, end >= 0.
PySlice(ary, st, end) == Slice(ary, Min(st, Len(ary)), Min(end, Len(ary)))

\* infer_variable_name(names)
infer_variable_name(names) == {strip_parts(n) : n \in names}

\* reversed_alias_map[old_name].append(new_name) for the items of alias_map:
\* the old names in the order of their first item, each with its new names.
RECURSIVE reverse_alias_map(_, _)
reverse_alias_map(items, reversed) ==
  IF Len(items) = 0 THEN reversed
  ELSE
    LET new == items[1][1]
        old == items[1][2]
    IN  reverse_alias_map(
          Tail(items),
          IF \E i \in 1..Len(reversed) : reversed[i].old_name = old
          THEN [i \in 1..Len(reversed) |->
                  IF reversed[i].old_name = old
                  THEN [reversed[i] EXCEPT !.new_name_list = Append(@, new)]
                  ELSE reversed[i]]
          ELSE Append(reversed, [old_name |-> old, new_name_list |-> <<new>>]))

\* new_groups[key].append(new_name) for the match matched of new_name, when
\* it matched.
add_to_group(new_groups, new_name, matched) ==
  IF ~matched.matched THEN new_groups
  ELSE IF \E i \in 1..Len(new_groups) : new_groups[i].key = matched.g1
  THEN [i \in 1..Len(new_groups) |->
          IF new_groups[i].key = matched.g1
          THEN [new_groups[i] EXCEPT !.names = Append(@, new_name)]
          ELSE new_groups[i]]
  ELSE Append(new_groups, [key |-> matched.g1, names |-> <<new_name>>])

\* new_groups: the names of new_name_list that DedupPat matches, by their
\* dense token, the tokens in the order of their first name.
RECURSIVE group_by_dense(_, _)
group_by_dense(new_name_list, new_groups) ==
  IF Len(new_name_list) = 0 THEN new_groups
  ELSE group_by_dense(Tail(new_name_list),
                      add_to_group(new_groups, new_name_list[1],
                                   DedupPat(new_name_list[1])))

\* sorted(new_groups, key=...)[0] for the keys of new_groups.
first_dense(keys) ==
  StableSort(keys, [i \in 1..Len(keys) |-> dense_sort_key(keys[i])])[1]

\* new_groups[key]
group_names(new_groups, key) ==
  new_groups[CHOOSE i \in 1..Len(new_groups) : new_groups[i].key = key].names

\* Lines 334-336 for the new_groups of new_name_list.
retained_of_groups(new_name_list, new_groups) ==
  IF Len(new_groups) > 1
  THEN group_names(new_groups,
                   first_dense([i \in 1..Len(new_groups) |-> new_groups[i].key]))
  ELSE new_name_list

\* A collapse that keeps the names of every group.
retained_names_NoCollapse(new_name_list) == new_name_list

\* The new names that stay for one old name: with more than one dense group,
\* those of the first group of sorted(new_groups, key=...).
retained_names(new_name_list) ==
  retained_of_groups(new_name_list, group_by_dense(new_name_list, <<>>))

\* The key of the sort by partition index: int(PAT.match(x).group(1)).
part_index(x) == int(PAT(x).g1)

\* A sort that leaves the names in the order of the alias map.
sort_by_part_Unsorted(new_name_list) == new_name_list

\* sorted(new_name_list, key=lambda x: int(PAT.match(x).group(1)))
sort_by_part(new_name_list) ==
  StableSort(new_name_list, [i \in 1..Len(new_name_list) |-> part_index(new_name_list[i])])

\* The running sums of the sizes: of the first, of the first two, ...
RECURSIVE running_sums(_)
RECURSIVE append_sum(_, _)
append_sum(sums, val) ==
  IF Len(sums) = 0 THEN <<val>> ELSE Append(sums, sums[Len(sums)] + val)

running_sums(sizes) ==
  IF Len(sizes) = 0 THEN <<>>
  ELSE append_sum(running_sums(SubSeq(sizes, 1, Len(sizes) - 1)), sizes[Len(sizes)])

\* indices_or_sections of the splits: the running sums of all but the last.
indices_or_sections(splits) == running_sums(SubSeq(splits, 1, Len(splits) - 1))

\* The slices of ary between consecutive division points.
slices_between(ary, div_points) ==
  [i \in 1..(Len(div_points) - 1) |-> PySlice(ary, div_points[i], div_points[i + 1])]

\* numpy.split(ary, indices, axis=0) for a list of indices: the slices between
\* the division points 0, indices..., len(ary).
np_split(ary, indices) == slices_between(ary, <<0>> \o indices \o <<Len(ary)>>)

\* result[ph_dict[name]] = tensor for the names and the tensors, pairwise.
RECURSIVE assign_all(_, _, _)
assign_all(result, names, tensors) ==
  IF Len(names) = 0 \/ Len(tensors) = 0 THEN result
  ELSE assign_all(SetItem(result, names[1], tensors[1]), Tail(names), Tail(tensors))

\* Lines 348-363 for the sorted names.
feed_partitions(result, sorted, old_tensor, shapes) ==
  assign_all(result, sorted,
             np_split(old_tensor,
                      indices_or_sections([i \in 1..Len(sorted) |-> shapes[sorted[i]]])))

\* Lines 338-363 for the names that stay.
feed_retained(result, kept, old_tensor, shapes) ==
  IF Len(kept) = 1
  THEN [raised |-> "", result |-> SetItem(result, kept[1], old_tensor)]
  ELSE IF \E i \in 1..Len(kept) : ~PAT(kept[i]).matched
  THEN \* PAT.match(x) is None
       [raised |-> "AttributeError", result |-> result]
  ELSE [raised |-> "",
        result |-> feed_partitions(result, sort_by_part(kept), old_tensor, shapes)]

\* One round of the loop over reversed_alias_map.items().
feed_one(result, new_name_list, old_tensor, shapes) ==
  IF Len(new_name_list) = 1
  THEN [raised |-> "", result |-> SetItem(result, new_name_list[1], old_tensor)]
  ELSE feed_retained(result, retained_names(new_name_list), old_tensor, shapes)

\* The loop over reversed_alias_map.items(): the rounds after the one that
\* ended as one, and the loop.
RECURSIVE feed_all(_, _, _, _)
RECURSIVE feed_rest(_, _, _, _)
feed_rest(one, reversed, extents, shapes) ==
  IF one.raised # "" THEN one
  ELSE feed_all(one.result, Tail(reversed), extents, shapes)

feed_all(result, reversed, extents, shapes) ==
  IF Len(reversed) = 0 THEN [raised |-> "", result |-> result]
  ELSE feed_rest(feed_one(result, reversed[1].new_name_list,
                          get_tensor(extents[reversed[1].old_name]), shapes),
                 reversed, extents, shapes)

\* What calc_feed_dict ends with after the loop.
feed_outcome(fed) ==
  IF fed.raised # ""
  THEN [outcome |-> "raised", error |-> fed.raised]
  ELSE [outcome |-> "result", result |-> fed.result]

\* calc_feed_dict(ckpt, alias_map, placeholders) for the checkpoint with the
\* leading extents extents, the items of alias_map and a placeholder of
\* leading size shapes[n] for every new name n: None, the result, or the
\* exception raised.
calc_feed_dict(extents, items, shapes) ==
  IF infer_variable_name({items[i][1] : i \in 1..Len(items)}) \ DOMAIN extents = {}
  THEN [outcome |-> "None"]
  ELSE feed_outcome(feed_all(<<>>, reverse_alias_map(items, <<>>), extents, shapes))

---------------------------------------------------------------------------
(* The variables of the operations a specification leaves out              *)

NormIdle == raw_name = <<>> /\ canonical = <<>> /\ canonical2 = <<>>

DenseIdle == mapping_items = <<>> /\ mapping_after = <<>>

ListenerIdle ==
  /\ env = <<>> /\ listener = <<>> /\ all_old_var_names = {}
  /\ variables = <<>> /\ custom_restore_op = <<>> /\ call = <<>>

FeedIdle == ckpt = <<>> /\ alias_map = <<>> /\ placeholders = <<>> /\ feed = <<>>

\* The sequences without repetition of at most n elements of S.
SeqsWithoutRepetition(S, n) ==
  UNION {{f \in [1..k -> S] : \A i, j \in 1..k : f[i] = f[j] => i = j} : k \in 0..n}

\* The orders in which a set can be iterated.
Orders(S) == {f \in [1..Cardinality(S) -> S] : \A i, j \in DOMAIN f : f[i] = f[j] => i = j}

---------------------------------------------------------------------------
(* NormSpec: a caller normalises a raw name with get_new_name and then     *)
(* normalises the result again.                                            *)

MaxLen == 4

NormAlphabet == {"w", "/", ":", "0", "^", " "}

RawNames == UNION {[1..n -> NormAlphabet] : n \in 0..MaxLen}

NormInit ==
  /\ pc = "raw"
  /\ raw_name \in RawNames
  /\ canonical = <<>>
  /\ canonical2 = <<>>
  /\ DenseIdle /\ ListenerIdle /\ FeedIdle

Normalize ==
  /\ pc = "raw"
  /\ canonical' = get_new_name(raw_name)
  /\ pc' = "normalized"
  /\ UNCHANGED <<raw_name, canonical2, denseVars, listenerVars, feedVars>>

NormalizeAgain ==
  /\ pc = "normalized"
  /\ canonical2' = get_new_name(canonical)
  /\ pc' = "renormalized"
  /\ UNCHANGED <<raw_name, canonical, denseVars, listenerVars, feedVars>>

NormNext == Normalize \/ NormalizeAgain

NormSpec == NormInit /\ [][NormNext]_vars

\* C1: name normalisation is idempotent: normalising the result of
\* get_new_name again gives the same name, for every raw name.
C1_Idempotent == pc = "renormalized" => canonical2 = canonical

---------------------------------------------------------------------------
(* DenseSpec: update_var_name_mapping_for_dense on a table built, as in    *)
(* step 3 of _need_build_custom_init_graph, from names of a checkpoint.    *)

MaxTable == 4

DenseOldNames ==
  { <<"a", "/", "dense", "_", "1", "/", "bias">>,
    <<"a", "/", "dense", "_", "2", "/", "bias">>,
    <<"a", "/", "dense", "_", "1", "/", "kernel">>,
    <<"a", "/", "dense", "_", "2", "/", "kernel">>,
    <<"b", "/", "b", "/", "dense", "_", "1", "/", "bias">>,
    <<"dense", "/", "kernel">>,
    <<"c_dot", "/", "mlp", "/", "dense", "/", "bias">>,
    <<"w">> }

\* var_name_mapping[get_new_name(name)] = name for the names in the given order.
ItemsOf(names) == [i \in DOMAIN names |-> <<get_new_name(names[i]), names[i]>>]

DenseInit ==
  /\ pc = "table"
  /\ \E names \in SeqsWithoutRepetition(DenseOldNames, MaxTable) :
       /\ Len(names) > 0
       /\ mapping_items = ItemsOf(names)
  /\ mapping_after = <<>>
  /\ NormIdle /\ ListenerIdle /\ FeedIdle

UpdateVarNameMappingForDense ==
  /\ pc = "table"
  /\ mapping_after' = update_var_name_mapping_for_dense(mapping_items)
  /\ pc' = "updated"
  /\ UNCHANGED <<mapping_items, normVars, listenerVars, feedVars>>

DenseNext == UpdateVarNameMappingForDense

DenseSpec == DenseInit /\ [][DenseNext]_vars

\* The same items in another order.
Reordered(items, order) == [i \in DOMAIN items |-> items[order[i]]]

\* C6: dense renumbering is deterministic in the input set: every
\* enumeration order of the entries of the table gives the same table.
C6_OrderIndependent ==
  pc = "updated" =>
    \A order \in Orders(DOMAIN mapping_items) :
      update_var_name_mapping_for_dense(Reordered(mapping_items, order)) = mapping_after

\* What the renumbering loop synthesizes: for every var_terms that passes
\* its condition, the new name, the kind of the variable and its origin.
RenumberedEntries(items) ==
  LET refactor == refactor_dense_layers(collect_dense_layers(items, <<>>), <<>>)
  IN  UNION {
        LET bucket == refactor[b]
            dense_names == bucket_dense_names(bucket)
        IN  UNION {
              LET vars_ == bucket_vars(bucket, dense_names[i + 1])
              IN  {[new_name |-> renumbered_name(bucket.bias_prefix,
                                                 <<"dense", "_">> \o str(i), vars_[v]),
                    local_var_name |-> vars_[v][3],
                    origin |-> vars_[v][5]] :
                     v \in {u \in 1..Len(vars_) :
                              prefix_fits(vars_[u][1], bucket.bias_prefix)}}
              : i \in 0..(Len(dense_names) - 1)}
        : b \in 1..Len(refactor)}

\* The names the renumbering loop synthesizes for the 'bias' entries.
BiasRenumberedNames(items) ==
  {e.new_name : e \in {r \in RenumberedEntries(items) : r.local_var_name = <<"bias">>}}

\* C9: across update_var_name_mapping_for_dense no key is removed, and the
\* value of a key that was present changes only if the key is the
\* renumbered name synthesized for a 'bias' entry: the names synthesized for
\* the other entries and the names of the last loop only fill absent keys.
C9_BiasWinsTies ==
  pc = "updated" =>
    \A k \in DOMAIN DictOf(mapping_items) :
      /\ k \in DOMAIN mapping_after
      /\ mapping_after[k] # DictOf(mapping_items)[k]
           => k \in BiasRenumberedNames(mapping_items)

\* A table where a 'bias' entry overwrote a key that was present, and where
\* the name synthesized for a kernel entry met a key that was present with
\* another value and left it alone.
C9_Witness ==
  /\ pc = "updated"
  /\ \E k \in DOMAIN DictOf(mapping_items) : mapping_after[k] # DictOf(mapping_items)[k]
  /\ \E e \in RenumberedEntries(mapping_items) :
       /\ e.local_var_name = <<"kernel">>
       /\ e.new_name \in DOMAIN DictOf(mapping_items)
       /\ DictOf(mapping_items)[e.new_name] # e.origin
       /\ mapping_after[e.new_name] = DictOf(mapping_items)[e.new_name]

---------------------------------------------------------------------------
(* ListenerSpec: CustomRestoreListener.begin on a graph and a checkpoint.  *)

MaxVars == 2
MaxOld == 3

\* Names of a checkpoint.
OldNamePool ==
  { <<"w">>,
    <<"kernel", "_", "0">>,
    <<"a", "/", "dense", "/", "bias">>,
    <<"a", "/", "dense", "/", "kernel">>,
    <<"x", "/", "x">> }

\* Names of variables of a graph, in the order of the collection.
VariablePool ==
  << <<"w", ":", "0">>,
     <<"w", "/", "part", "_", "0", ":", "0">>,
     <<"w", "/", "part", "_", "1", ":", "0">>,
     <<"x", ":", "0">>,
     <<"dcn", "/", "kernel", "_", "0", ":", "0">>,
     <<"a", "/", "dense", "_", "0", "/", "kernel", ":", "0">>,
     <<"zz", ":", "0">> >>

\* The elements of pool at the indices S, in the order of pool.
Picked(pool, S) ==
  [i \in 1..Cardinality(S) |->
     pool[CHOOSE k \in S : Cardinality({j \in S : j <= k}) = i]]

VariableLists ==
  {Picked(VariablePool, S) :
     S \in {T \in SUBSET (1..Len(VariablePool)) : Cardinality(T) <= MaxVars}}

OldNameSets == {S \in SUBSET OldNamePool : Cardinality(S) <= MaxOld}

\* The graphs restored with a given alias map: of the variables w, x and zz.
GivenVariableLists == {Picked(VariablePool, S) : S \in SUBSET {1, 4, 7}}

\* Alias maps a caller gives: from names of variables to names of a checkpoint.
GivenAliasMaps ==
  UNION {[S -> {<<"w">>, <<"v">>}] : S \in SUBSET {<<"x">>, <<"zz">>}}

RestoreEnv == [is_exporting |-> FALSE, checkpoint_state |-> "ckpt", flag_file |-> FALSE]

ListenerInit ==
  /\ pc = "constructed"
  /\ \/ \* restoring, no alias map given
        /\ env = RestoreEnv
        /\ \E auto_gen \in BOOLEAN :
             listener = CustomRestoreListener(NoneDict, FALSE, FALSE, "model_dir", auto_gen)
        /\ all_old_var_names \in OldNameSets
        /\ variables \in VariableLists
     \/ \* restoring, an alias map given
        /\ env = RestoreEnv
        /\ \E given \in GivenAliasMaps, auto_gen \in BOOLEAN :
             listener = CustomRestoreListener(Dict(given), FALSE, FALSE, "model_dir", auto_gen)
        /\ all_old_var_names \in SUBSET {<<"w">>, <<"x">>}
        /\ variables \in GivenVariableLists
     \/ \* every environment and every flag, on one graph and one checkpoint
        /\ env \in [is_exporting : BOOLEAN, checkpoint_state : {"None", "ckpt"},
                    flag_file : BOOLEAN]
        /\ \E given \in {NoneDict, Dict(<<"x">> :> <<"w">>)},
              clear_nn \in BOOLEAN, continue_training \in BOOLEAN,
              model_dir \in {"None", "model_dir"} :
             listener = CustomRestoreListener(given, clear_nn, continue_training,
                                              model_dir, TRUE)
        /\ all_old_var_names = {<<"w">>}
        /\ variables = << <<"x", ":", "0">> >>
  /\ custom_restore_op = <<>>
  /\ call = NotCalled
  /\ NormIdle /\ DenseIdle /\ FeedIdle

\* Lines 198-213 of begin, r being what _need_build_custom_init_graph of the
\* listener self returned and left.
BeginBuilds(self, r) ==
  /\ listener' = [self EXCEPT !._alias_map = r._alias_map]
  /\ call' = [called |-> TRUE, ret |-> r.ret, at |-> r.at,
              var_name_mapping |-> r.var_name_mapping,
              alias_map |-> r.alias_map]
  /\ custom_restore_op' =
       IF r.ret
       THEN Append(custom_restore_op,
                   RestoreOp(<<"init_op">>,
                             [i \in 1..Len(variables) |-> node_name(variables[i])],
                             r._alias_map))
       ELSE custom_restore_op

\* begin()
Begin ==
  /\ pc = "constructed"
  /\ pc' = "begun"
  /\ IF env.is_exporting \/ env.checkpoint_state = "None"
     THEN UNCHANGED <<listener, custom_restore_op, call>>
     ELSE
       LET self == [listener EXCEPT !.ckpt_name = "model_checkpoint_path"] IN
       IF self._clear_nn
       THEN IF ~self._alias_map.none
            THEN \* assert self._alias_map is None
                 /\ listener' = self
                 /\ call' = [called |-> FALSE, raised |-> "AssertionError"]
                 /\ UNCHANGED custom_restore_op
            ELSE IF self.model_dir # "None" /\ env.flag_file
            THEN /\ listener' = self
                 /\ UNCHANGED <<custom_restore_op, call>>
            ELSE /\ listener' = self
                 /\ custom_restore_op' =
                      Append(custom_restore_op,
                             IF self._continue_training
                             THEN RestoreOp(<<"init_op", "update_gs_op">>,
                                            <<<<"global_step_ph">>>>, NoneDict)
                             ELSE RestoreOp(<<"init_op">>, <<NoneName>>, NoneDict))
                 /\ UNCHANGED call
       ELSE
         \E old_order \in Orders(all_old_var_names) :
           \E none_order \in
                (IF infers(self, variables, all_old_var_names)
                 THEN Orders(none_values_of(variables, old_order))
                 ELSE {<<>>}) :
             BeginBuilds(self, _need_build_custom_init_graph(
                                 self, variables, all_old_var_names,
                                 old_order, none_order))
  /\ UNCHANGED <<env, all_old_var_names, variables, normVars, denseVars, feedVars>>

ListenerNext == Begin

ListenerSpec == ListenerInit /\ [][ListenerNext]_vars

\* begin is about to call _need_build_custom_init_graph.
Calls ==
  /\ pc = "constructed"
  /\ ~env.is_exporting /\ env.checkpoint_state # "None"
  /\ ~listener._clear_nn

\* begin is about to call it with no alias map given and automatic inference
\* enabled.
CallsAuto ==
  /\ Calls
  /\ ~Truthy(listener._alias_map)
  /\ listener.enable_alias_map_auto_gen

\* begin called _need_build_custom_init_graph and it inferred an alias map.
AutoCall ==
  /\ pc = "begun" /\ call.called /\ call.at # "given"

\* C7: with no alias map given and inference enabled, if the name of every
\* variable, without its '/part_<N>' segments and normalised, is a name of the
\* checkpoint, then begin generates no alias map, leaves the alias map of the
\* listener as it was and requests no custom restore graph.
C7_NoAliasNeeded ==
  [][ ( /\ CallsAuto
        /\ \A i \in 1..Len(variables) :
             node_name(strip_parts(variables[i])) \in all_old_var_names )
      => /\ call'.called /\ call'.ret = FALSE
         /\ call'.alias_map.none
         /\ listener'._alias_map = listener._alias_map
         /\ custom_restore_op' = <<>> ]_vars

\* A partitioned variable and a plain one, both found in the checkpoint.
C7_Witness ==
  /\ pc = "begun" /\ call.called /\ call.at = "compatible"
  /\ Len(variables) >= 2
  /\ \E i \in 1..Len(variables) : strip_parts(variables[i]) # variables[i]
  /\ call.ret = FALSE /\ custom_restore_op = <<>>

\* C10: an automatically generated alias map that begin stores on the
\* listener has an entry for the normalised name of every variable, no entry
\* is None and every value is a name of the checkpoint; and when a variable
\* stays unresolved the alias map of the listener is left as it was, unset.
C10_StoredMapIsTotal ==
  [][ CallsAuto =>
        /\ listener'._alias_map # listener._alias_map =>
             /\ call'.at = "generated"
             /\ ~listener'._alias_map.none
             /\ \A i \in 1..Len(variables) :
                  node_name(variables[i]) \in DOMAIN listener'._alias_map.d
             /\ \A k \in DOMAIN listener'._alias_map.d :
                  /\ listener'._alias_map.d[k] # NoneName
                  /\ listener'._alias_map.d[k] \in all_old_var_names
        /\ call'.at = "generated" => listener'._alias_map = call'.alias_map
        /\ call'.at = "cannot alias" =>
             /\ none_values(call'.alias_map.d) # {}
             /\ listener'._alias_map = listener._alias_map ]_vars

\* A stored map with an entry that the dense renumbering resolved and one
\* that the guess of step 5 resolved.
C10_Witness ==
  /\ AutoCall /\ call.at = "generated" /\ Truthy(listener._alias_map)
  /\ \E i \in 1..Len(variables) :
       expected_saved_varibale_name(variables[i]) \notin DOMAIN call.var_name_mapping.d
  /\ \E k \in DOMAIN listener._alias_map.d :
       /\ k \in DOMAIN call.var_name_mapping.d
       /\ k \notin {get_new_name(n) : n \in all_old_var_names}

\* C4: failures of alias inference are aggregated: when inference leaves
\* variables unresolved, the alias map it reports has None for exactly the
\* variables that neither the lookup nor the guess resolves; the variables
\* that the guess resolves are resolved in it.
C4_Aggregated ==
  (AutoCall /\ call.at = "cannot alias") =>
    \A n \in none_values(call.alias_map.d) :
      get_guess_name(expected_saved_varibale_name(n)) \notin DOMAIN call.var_name_mapping.d

\* C5: with an alias map given, a variable whose name is neither a name of
\* the checkpoint nor a key of the map makes the outcome unresolvable: no
\* custom restore is built.
C5_CoverageOnKeys ==
  ( /\ pc = "begun" /\ call.called /\ call.at = "given"
    /\ Truthy(listener._alias_map)
    /\ \E i \in 1..Len(variables) :
         /\ node_name(variables[i]) \notin all_old_var_names
         /\ node_name(variables[i]) \notin DOMAIN listener._alias_map.d )
  => call.ret = FALSE /\ custom_restore_op = <<>>

---------------------------------------------------------------------------
(* FeedSpec: calc_feed_dict on a checkpoint, an alias map and the          *)
(* placeholders begin makes, one for every key of the alias map.           *)

MaxAlias == 3
MaxExtent == 4

W == <<"w">>
K == <<"a", "/", "dense", "/", "kernel">>

\* The new names of the alias maps, each with the leading size of its
\* placeholder.
NewNameShapes ==
  ( <<"v", "/", "part", "_", "0">> :> 1 ) @@
  ( <<"v", "/", "part", "_", "1">> :> 2 ) @@
  ( <<"v", "/", "part", "_", "2">> :> 1 ) @@
  ( <<"a", "/", "dense", "_", "0", "/", "kernel", "/", "part", "_", "0">> :> 2 ) @@
  ( <<"a", "/", "dense", "_", "0", "/", "kernel", "/", "part", "_", "1">> :> 1 ) @@
  ( <<"a", "/", "dense", "_", "1", "/", "kernel", "/", "part", "_", "0">> :> 3 ) @@
  ( K :> 3 )

FeedInit ==
  /\ pc = "restoring"
  /\ \E extent \in {MaxExtent - 1, MaxExtent} : ckpt = (W :> extent) @@ (K :> 3)
  /\ \E names \in SeqsWithoutRepetition(DOMAIN NewNameShapes, MaxAlias) :
       /\ Len(names) > 0
       /\ \E olds \in [1..Len(names) -> {W, K}] :
            alias_map = [i \in 1..Len(names) |-> <<names[i], olds[i]>>]
  /\ placeholders = [n \in {alias_map[i][1] : i \in 1..Len(alias_map)} |-> NewNameShapes[n]]
  /\ feed = [outcome |-> "not called"]
  /\ NormIdle /\ DenseIdle /\ ListenerIdle

CalcFeedDict ==
  /\ pc = "restoring"
  /\ feed' = calc_feed_dict(ckpt, alias_map, placeholders)
  /\ pc' = "fed"
  /\ UNCHANGED <<ckpt, alias_map, placeholders, normVars, denseVars, listenerVars>>

FeedNext == CalcFeedDict

FeedSpec == FeedInit /\ [][FeedNext]_vars

\* The old names of the alias map, each with the new names aliased to it.
Reversed == reverse_alias_map(alias_map, <<>>)

\* The elements of a sequence.
Elements(xs) == {xs[i] : i \in 1..Len(xs)}

\* The sum of the expected leading sizes of the names.
SumShapes(names) ==
  LET sum[k \in 0..Len(names)] ==
        IF k = 0 THEN 0 ELSE sum[k - 1] + placeholders[names[k]]
  IN  sum[Len(names)]

\* Whether calc_feed_dict gave the name a value, and the rows it gave it.
Receives(n) == feed.outcome = "result" /\ n \in DOMAIN feed.result

Received(n) == IF Receives(n) THEN feed.result[n] ELSE <<>>

\* The rows lo+1..lo+n of a tensor.
Rows(lo, n) == [r \in 1..n |-> lo + r]

\* C2: when the expected leading sizes of the names that remain for an old
\* name do not sum to the leading extent of the old tensor, calc_feed_dict
\* ends in a fatal error and assigns no slice.
C2_ShapeMismatchIsFatal ==
  (pc = "fed" /\ feed.outcome # "None") =>
    LET reversed == Reversed IN
    \A g \in 1..Len(reversed) :
      LET kept == retained_names(reversed[g].new_name_list) IN
      (Len(kept) >= 2 /\ SumShapes(kept) # ckpt[reversed[g].old_name])
        => feed.outcome = "raised"

\* Whether every name has a partition index and no two have the same.
DistinctParts(names) ==
  /\ \A n \in names : PAT(n).matched
  /\ \A n, m \in names : part_index(n) = part_index(m) => n = m

\* The orders of the names by ascending partition index.
OrdersByPart(names) ==
  {order \in Orders(names) :
     \A i, j \in 1..Len(order) : i < j => part_index(order[i]) <= part_index(order[j])}

\* Whether the k-th name of order received the k-th run of consecutive rows,
\* for every k.
ReceivedInOrder(order) ==
  \A k \in 1..Len(order) :
    /\ Receives(order[k])
    /\ Received(order[k]) = Rows(SumShapes(SubSeq(order, 1, k - 1)), placeholders[order[k]])

TokenRank(key) == IF key = <<"dense">> THEN 0 ELSE 1 + dense_sort_key(key)

\* Whether, of the new names new_name_list of an old tensor of the given
\* extent, only those of the group first receive a value, and the whole
\* tensor when the group has one name and must_receive holds.
OnlyGroupReceives(new_name_list, group, extent, must_receive) ==
  /\ \A n \in Elements(new_name_list) : Receives(n) => n \in Elements(group.names)
  /\ (must_receive /\ Len(group.names) = 1) =>
       /\ Receives(group.names[1])
       /\ Received(group.names[1]) = get_tensor(extent)

Winner(groups) ==
  CHOOSE i \in 1..Len(groups) :
    \A j \in 1..Len(groups) :
      j # i => \/ dense_sort_key(groups[i].key) < dense_sort_key(groups[j].key)
               \/ /\ dense_sort_key(groups[i].key) = dense_sort_key(groups[j].key)
                  /\ i < j

====
